---- MODULE Spec2Model ----
(***************************************************************************)
(* PayPalResponse (src/paypal/response.py): a read-only mapping over the   *)
(* NVP query string returned by the PayPal API.                            *)
(*                                                                         *)
(* Strings are sequences of one-character strings over printable ASCII,    *)
(* so that str.upper(), the query-string parser and the key ordering of    *)
(* pprint are computed character by character.                             *)
(*                                                                         *)
(* A dict is a sequence of entries [key, vals] in insertion order with     *)
(* pairwise distinct keys.                                                 *)
(***************************************************************************)
EXTENDS Naturals, Sequences, FiniteSets

VARIABLES
    query_string,   \* the argument of PayPalResponse(query_string, config)
    config,         \* the argument config: [ACK_SUCCESS, ACK_SUCCESS_WITH_WARNING]
    raw,            \* self.raw
    pc,             \* "start": not constructed; "built": __init__ returned;
                    \* "failed": __init__ raised, no object exists
    log,            \* the messages handed to logger.debug
    last            \* the last call on the object: [op, arg, out]

vars == <<query_string, config, raw, pc, log, last>>

\* The number of "&"-separated segments of the query strings explored.
MaxPairs == 3

----------------------------------------------------------------------------
\* Characters and strings

\* The printable ASCII characters, code points 32..126 in order (the grave
\* accent, 96, which no TLA+ string can hold, is written "GRAVE").
Ascii ==
    <<" ", "!", "\"", "#", "$", "%", "&", "'", "(", ")", "*", "+", ",", "-", ".", "/", "0", "1", "2", "3", "4", "5", "6", "7", "8", "9", ":", ";", "<", "=", ">", "?">>
    \o <<"@", "A", "B", "C", "D", "E", "F", "G", "H", "I", "J", "K", "L", "M", "N", "O", "P", "Q", "R", "S", "T", "U", "V", "W", "X", "Y", "Z", "[", "\\", "]", "^", "_">>
    \o <<"GRAVE", "a", "b", "c", "d", "e", "f", "g", "h", "i", "j", "k", "l", "m", "n", "o", "p", "q", "r", "s", "t", "u", "v", "w", "x", "y", "z", "{", "|", "}", "~">>

\* The code point of each character.
CodePoint == [c \in {Ascii[i] : i \in 1..Len(Ascii)} |-> 31 + (CHOOSE i \in 1..Len(Ascii) : Ascii[i] = c)]

\* ord(c)
ord(c) == CodePoint[c]

\* chr(n), for a printable code point
chr(n) == Ascii[n - 31]

IsPrintable(n) == n \in 32..126

\* str.upper() of one character: a..z (97..122) map to A..Z (65..90).
UpperChar(c) == IF ord(c) \in 97..122 THEN chr(ord(c) - 32) ELSE c

\* str.upper()
upper(s) == [i \in 1..Len(s) |-> UpperChar(s[i])]

\* s < t in Python's string ordering (lexicographic by code point).
RECURSIVE StrLess(_, _)
StrLess(s, t) ==
    IF t = <<>> THEN FALSE
    ELSE IF s = <<>> THEN TRUE
    ELSE IF Head(s) = Head(t) THEN StrLess(Tail(s), Tail(t))
    ELSE ord(Head(s)) < ord(Head(t))

----------------------------------------------------------------------------
\* urllib.parse.parse_qs(query_string), with its default arguments
\* (keep_blank_values=False, strict_parsing=False)

\* s.split(sep), with cur the piece being read
RECURSIVE SplitFrom(_, _, _)
SplitFrom(s, sep, cur) ==
    IF s = <<>> THEN <<cur>>
    ELSE IF Head(s) = sep THEN <<cur>> \o SplitFrom(Tail(s), sep, <<>>)
    ELSE SplitFrom(Tail(s), sep, Append(cur, Head(s)))

split(s, sep) == SplitFrom(s, sep, <<>>)

\* The index of the first sep in s, 0 when there is none.
find(s, sep) ==
    IF \E i \in 1..Len(s) : s[i] = sep
    THEN CHOOSE i \in 1..Len(s) : s[i] = sep /\ \A j \in 1..(i - 1) : s[j] # sep
    ELSE 0

\* The value of a hexadecimal digit, 16 for any other character.
HexVal(c) ==
    LET n == ord(c) IN
    IF n \in 48..57 THEN n - 48
    ELSE IF n \in 65..70 THEN n - 55
    ELSE IF n \in 97..102 THEN n - 87
    ELSE 16

\* s.replace("+", " ")
PlusToSpace(s) == [i \in 1..Len(s) |-> IF s[i] = "+" THEN " " ELSE s[i]]

\* urllib.parse.unquote: %XX becomes the character with that code; a "%" not
\* followed by two hexadecimal digits stays.  Escapes of code points outside
\* printable ASCII are outside the alphabet of the model and stay as well.
RECURSIVE unquote(_)
unquote(s) ==
    IF s = <<>> THEN <<>>
    ELSE IF /\ Head(s) = "%"
            /\ Len(s) >= 3
            /\ HexVal(s[2]) < 16
            /\ HexVal(s[3]) < 16
            /\ IsPrintable(16 * HexVal(s[2]) + HexVal(s[3]))
         THEN <<chr(16 * HexVal(s[2]) + HexVal(s[3]))>> \o unquote(SubSeq(s, 4, Len(s)))
         ELSE <<Head(s)>> \o unquote(Tail(s))

\* parse_qsl: the (name, value) pairs of the segments that hold an "=" and a
\* non-empty value; the others are skipped.
RECURSIVE PairsOf(_)
PairsOf(segs) ==
    IF segs = <<>> THEN <<>>
    ELSE LET nv == Head(segs)
             eq == find(nv, "=")
             name == SubSeq(nv, 1, eq - 1)
             value == SubSeq(nv, eq + 1, Len(nv))
         IN  IF eq = 0 \/ value = <<>>
             THEN PairsOf(Tail(segs))
             ELSE <<[name |-> unquote(PlusToSpace(name)),
                     value |-> unquote(PlusToSpace(value))]>> \o PairsOf(Tail(segs))

parse_qsl(qs) == PairsOf(split(qs, "&"))

\* d[name].append(value) if name in d else d[name] = [value]
AddValue(d, name, value) ==
    IF \E i \in 1..Len(d) : d[i].key = name
    THEN [i \in 1..Len(d) |->
             IF d[i].key = name
             THEN [key |-> name, vals |-> Append(d[i].vals, value)]
             ELSE d[i]]
    ELSE Append(d, [key |-> name, vals |-> <<value>>])

RECURSIVE Accumulate(_, _)
Accumulate(d, pairs) ==
    IF pairs = <<>> THEN d
    ELSE Accumulate(AddValue(d, Head(pairs).name, Head(pairs).value), Tail(pairs))

parse_qs(qs) == Accumulate(<<>>, parse_qsl(qs))

----------------------------------------------------------------------------
\* Dict primitives

KeysOf(d) == [i \in 1..Len(d) |-> d[i].key]

HasKey(d, key) == \E i \in 1..Len(d) : d[i].key = key

ValueOf(d, key) == d[CHOOSE i \in 1..Len(d) : d[i].key = key].vals

----------------------------------------------------------------------------
\* Outcomes of a call: a returned value or a raised exception.
\*   kind  "str" (val = <<s>>), "list" (val = the strings), "bool" (n = 1 for
\*         True, 0 for False), "int" (n), "keys" (val = the keys in order),
\*         "text" (text = the rendered entries), "KeyError" and
\*         "AttributeError" (val = <<the name the exception carries>>),
\*         "none" (nothing called yet)

Out(kind, val, n, text) == [kind |-> kind, val |-> val, n |-> n, text |-> text]

ReturnStr(s) == Out("str", <<s>>, 0, <<>>)
ReturnList(l) == Out("list", l, 0, <<>>)
ReturnBool(b) == Out("bool", <<>>, IF b THEN 1 ELSE 0, <<>>)
ReturnInt(n) == Out("int", <<>>, n, <<>>)
ReturnKeys(ks) == Out("keys", ks, 0, <<>>)
ReturnText(t) == Out("text", <<>>, 0, t)
RaiseKeyError(key) == Out("KeyError", <<key>>, 0, <<>>)
RaiseAttributeError(name) == Out("AttributeError", <<name>>, 0, <<>>)
NoOut == Out("none", <<>>, 0, <<>>)

Raised(o) == o.kind \in {"KeyError", "AttributeError"}

----------------------------------------------------------------------------
\* PayPalResponse

\* __getitem__ with the upper-casing of the key left out.
getitem_KeyAsGiven(d, key) ==
    IF ~HasKey(d, key) THEN RaiseKeyError(key)
    ELSE IF Len(ValueOf(d, key)) = 1 THEN ReturnStr(ValueOf(d, key)[1])
    ELSE ReturnList(ValueOf(d, key))

\* __getitem__: key = key.upper(); value = self.raw[key], which raises
\* KeyError(key) when the upper-cased key is missing; a one-element list is
\* returned as its element, any other list as it is.
getitem(d, key) ==
    LET K == upper(key) IN
    IF ~HasKey(d, K) THEN RaiseKeyError(K)
    ELSE IF Len(ValueOf(d, K)) = 1 THEN ReturnStr(ValueOf(d, K)[1])
    ELSE ReturnList(ValueOf(d, K))

\* __getattr__ letting the KeyError of __getitem__ through under another type,
\* with the name the KeyError carries.
getattr_UpperName(d, key) ==
    IF Raised(getitem(d, key)) THEN RaiseAttributeError(getitem(d, key).val[1])
    ELSE getitem(d, key)

\* __getattr__: self[key], a KeyError re-raised as AttributeError(key).
getattr(d, key) ==
    IF Raised(getitem(d, key)) THEN RaiseAttributeError(key)
    ELSE getitem(d, key)

\* __iter__: iter(self.raw), the keys in insertion order.
iter(d) == ReturnKeys(KeysOf(d))

\* __len__: len(self.raw)
len(d) == ReturnInt(Len(d))

\* Mapping.items(): (key, self[key]) for each key of iter(self); the first
\* self[key] that raises ends the iteration with its exception.
ItemsRaise(d) == {i \in 1..Len(d) : Raised(getitem(d, d[i].key))}

FirstRaise(d) ==
    getitem(d, d[CHOOSE i \in ItemsRaise(d) : \A j \in ItemsRaise(d) : i <= j].key)

items(d) ==
    [i \in 1..Len(d) |->
        [key |-> d[i].key, kind |-> getitem(d, d[i].key).kind, val |-> getitem(d, d[i].key).val]]

\* The strings of S in increasing order.
RECURSIVE sorted(_)
sorted(S) ==
    IF S = {} THEN <<>>
    ELSE LET m == CHOOSE x \in S : \A y \in S \ {x} : StrLess(x, y)
         IN  <<m>> \o sorted(S \ {m})

\* pformat(dict(its)): the entries of the dict, sorted by key.
pformat(its) ==
    LET ks == sorted({its[i].key : i \in 1..Len(its)})
    IN  [j \in 1..Len(ks) |-> its[CHOOSE i \in 1..Len(its) : its[i].key = ks[j]]]

\* __str__: pformat(dict(self.items()))
str(d) == IF ItemsRaise(d) # {} THEN FirstRaise(d) ELSE ReturnText(pformat(items(d)))

\* formatted(): pformat(dict(self.items()))
formatted(d) == IF ItemsRaise(d) # {} THEN FirstRaise(d) ELSE ReturnText(pformat(items(d)))

\* The property success: self.ack.upper() in (ACK_SUCCESS,
\* ACK_SUCCESS_WITH_WARNING).  self.ack goes through __getattr__.  When the
\* getter raises AttributeError (self.ack is missing, or self.ack is a list,
\* which has no upper), attribute lookup falls back to
\* __getattr__("success").
success(d, cfg) ==
    LET ack == getattr(d, <<"a", "c", "k">>) IN
    IF ack.kind = "str"
    THEN ReturnBool(upper(ack.val[1]) \in {cfg.ACK_SUCCESS, cfg.ACK_SUCCESS_WITH_WARNING})
    ELSE getattr(d, <<"s", "u", "c", "c", "e", "s", "s">>)

----------------------------------------------------------------------------
\* Inputs

\* The segments the query strings are joined from: upper- and lower-case
\* names, a repeated name, a percent-encoded name, "=" and "+" in a value, an
\* empty value, a segment without "=".
Segments ==
    { <<"A", "C", "K", "=", "S", "u", "c", "c", "e", "s", "s">>,
      <<"a", "c", "k", "=", "F", "a", "i", "l", "u", "r", "e">>,
      <<"A", "C", "K", "=", "F", "a", "i", "l", "u", "r", "e">>,
      <<"%", "4", "1", "C", "K", "=", "S", "u", "c", "c", "e", "s", "s", "W", "i", "t", "h", "W", "a", "r", "n", "i", "n", "g">>,
      <<"A", "M", "T", "=", "1", "=", "2", "+", "3">>,
      <<"A", "M", "T", "=">>,
      <<"S", "U", "C", "C", "E", "S", "S", "=", "1">>,
      <<"T", "O", "K", "E", "N">> }

\* "&".join(segs)
RECURSIVE join(_)
join(segs) ==
    IF segs = <<>> THEN <<>>
    ELSE IF Len(segs) = 1 THEN Head(segs)
    ELSE Head(segs) \o <<"&">> \o join(Tail(segs))

QueryStrings == {join(segs) : segs \in UNION {[1..n -> Segments] : n \in 0..MaxPairs}}

\* The config objects: PayPal's tokens, and a config whose first token is
\* not upper case.
Configs ==
    { [ACK_SUCCESS |-> <<"S", "U", "C", "C", "E", "S", "S">>,
       ACK_SUCCESS_WITH_WARNING |-> <<"S", "U", "C", "C", "E", "S", "S", "W", "I", "T", "H", "W", "A", "R", "N", "I", "N", "G">>],
      [ACK_SUCCESS |-> <<"S", "u", "c", "c", "e", "s", "s">>,
       ACK_SUCCESS_WITH_WARNING |-> <<"S", "U", "C", "C", "E", "S", "S", "W", "I", "T", "H", "W", "A", "R", "N", "I", "N", "G">>] }

\* The keys asked for.
LookupKeys ==
    { <<"A", "C", "K">>, <<"a", "c", "k">>, <<"A", "c", "k">>,
      <<"a", "m", "t">>,
      <<"T", "O", "K", "E", "N">> }

----------------------------------------------------------------------------
\* The state machine

Call(op, arg, out) == [op |-> op, arg |-> arg, out |-> out]

Init ==
    /\ query_string \in QueryStrings
    /\ config \in Configs
    /\ raw = <<>>
    /\ pc = "start"
    /\ log = <<>>
    /\ last = Call("none", <<>>, NoOut)

\* __init__ with the rendering for the log entry guarded: an exception of
\* __str__ is dropped and construction completes.
PayPalResponse_LogGuarded ==
    /\ pc = "start"
    /\ raw' = parse_qs(query_string)
    /\ pc' = "built"
    /\ log' = IF Raised(str(raw')) THEN log ELSE Append(log, str(raw').text)
    /\ last' = Call("__init__", <<>>, NoOut)
    /\ UNCHANGED <<query_string, config>>

\* __init__: self.raw = parse_qs(query_string); self.config = config;
\* logger.debug("..." % self.__str__()).  The message is built before
\* logger.debug is called, so an exception of __str__ leaves __init__.
PayPalResponse ==
    /\ pc = "start"
    /\ raw' = parse_qs(query_string)
    /\ IF Raised(str(raw'))
       THEN /\ pc' = "failed"
            /\ log' = log
            /\ last' = Call("__init__", <<>>, str(raw'))
       ELSE /\ pc' = "built"
            /\ log' = Append(log, str(raw').text)
            /\ last' = Call("__init__", <<>>, NoOut)
    /\ UNCHANGED <<query_string, config>>

\* self[key] that also stores the value under the key as given.
CallGetItem_Caching(key) ==
    /\ pc = "built"
    /\ last' = Call("getitem", key, getitem(raw, key))
    /\ raw' = IF Raised(getitem(raw, key)) \/ HasKey(raw, key)
              THEN raw
              ELSE Append(raw, [key |-> key, vals |-> ValueOf(raw, upper(key))])
    /\ UNCHANGED <<query_string, config, pc, log>>

\* self[key]
CallGetItem(key) ==
    /\ pc = "built"
    /\ last' = Call("getitem", key, getitem(raw, key))
    /\ UNCHANGED <<query_string, config, raw, pc, log>>

\* self.<key>, for a key that is no attribute of the object
CallGetAttr(key) ==
    /\ pc = "built"
    /\ last' = Call("getattr", key, getattr(raw, key))
    /\ UNCHANGED <<query_string, config, raw, pc, log>>

\* list(self)
CallIter ==
    /\ pc = "built"
    /\ last' = Call("iter", <<>>, iter(raw))
    /\ UNCHANGED <<query_string, config, raw, pc, log>>

\* len(self)
CallLen ==
    /\ pc = "built"
    /\ last' = Call("len", <<>>, len(raw))
    /\ UNCHANGED <<query_string, config, raw, pc, log>>

\* str(self)
CallStr ==
    /\ pc = "built"
    /\ last' = Call("str", <<>>, str(raw))
    /\ UNCHANGED <<query_string, config, raw, pc, log>>

\* self.formatted()
CallFormatted ==
    /\ pc = "built"
    /\ last' = Call("formatted", <<>>, formatted(raw))
    /\ UNCHANGED <<query_string, config, raw, pc, log>>

\* self.success
CallSuccess ==
    /\ pc = "built"
    /\ last' = Call("success", <<>>, success(raw, config))
    /\ UNCHANGED <<query_string, config, raw, pc, log>>

Next ==
    \/ PayPalResponse
    \/ \E key \in LookupKeys : CallGetItem(key)
    \/ \E key \in LookupKeys : CallGetAttr(key)
    \/ CallIter
    \/ CallLen
    \/ CallStr
    \/ CallFormatted
    \/ CallSuccess

Spec == Init /\ [][Next]_vars

----------------------------------------------------------------------------
\* What the claims speak of

\* The pairs a query string encodes: every segment holding an "=", split at
\* the first one, name and value percent-decoded; an empty value counts.
RECURSIVE EncodedPairsOf(_)
EncodedPairsOf(segs) ==
    IF segs = <<>> THEN <<>>
    ELSE LET nv == Head(segs)
             eq == find(nv, "=")
         IN  IF eq = 0
             THEN EncodedPairsOf(Tail(segs))
             ELSE <<[name |-> unquote(PlusToSpace(SubSeq(nv, 1, eq - 1))),
                     value |-> unquote(PlusToSpace(SubSeq(nv, eq + 1, Len(nv))))]>>
                  \o EncodedPairsOf(Tail(segs))

EncodedPairs(qs) == EncodedPairsOf(split(qs, "&"))

RECURSIVE ValuesNamed(_, _)
ValuesNamed(pairs, K) ==
    IF pairs = <<>> THEN <<>>
    ELSE IF upper(Head(pairs).name) = K /\ Head(pairs).value # <<>>
         THEN <<Head(pairs).value>> \o ValuesNamed(Tail(pairs), K)
         ELSE ValuesNamed(Tail(pairs), K)

\* The non-empty values the query string encodes for field k, in encoding
\* order, a field being its name in any letter case.
EncodedValues(qs, k) == ValuesNamed(EncodedPairs(qs), upper(k))

\* The fields the query string encodes, a field being its name in any letter
\* case, pairs with an empty value included.
EncodedFields(qs) == {upper(EncodedPairs(qs)[i].name) : i \in 1..Len(EncodedPairs(qs))}

AckName == <<"A", "C", "K">>

Built == pc = "built"

SuccessTokens == {config.ACK_SUCCESS, config.ACK_SUCCESS_WITH_WARNING}

----------------------------------------------------------------------------
\* Claims

\* C1: get(k) of a field k encoded in the query string returns the bare value
\* when the field has exactly one encoded value, and the sequence of all its
\* values in encoding order when it has more than one.
ClaimC1 ==
    (Built /\ last.op = "getitem") =>
        LET vs == EncodedValues(query_string, last.arg) IN
        /\ Len(vs) = 1 => last.out = ReturnStr(vs[1])
        /\ Len(vs) > 1 => last.out = ReturnList(vs)

\* C2: lookup is case-insensitive on the requested key: a key differing from
\* the one asked for only in letter case gives the same outcome of get (the
\* same value or the same not-found), and of getField the same value or a
\* failure as well.
TheoremC2 ==
    Built =>
        /\ last.op = "getitem" =>
               \A k2 \in LookupKeys :
                   upper(k2) = upper(last.arg) => getitem(raw, k2) = last.out
        /\ last.op = "getattr" =>
               \A k2 \in LookupKeys :
                   upper(k2) = upper(last.arg) =>
                       IF Raised(last.out)
                       THEN Raised(getattr(raw, k2))
                       ELSE getattr(raw, k2) = last.out

\* C2's case: get("ack") returned the value stored under "ACK".
WitnessC2 ==
    /\ Built
    /\ last.op = "getitem"
    /\ last.arg = <<"a", "c", "k">>
    /\ last.out.kind = "str"
    /\ HasKey(raw, AckName)

\* C3: isSuccess() returns true exactly when ACK is present and its value,
\* upper-cased, is one of the two config tokens as given; when ACK is absent
\* from the record it returns no value and raises FieldNotFound.
ClaimC3 ==
    (Built /\ last.op = "success") =>
        IF HasKey(raw, AckName)
        THEN last.out = ReturnBool(TRUE) <=>
                 /\ Len(ValueOf(raw, AckName)) = 1
                 /\ upper(ValueOf(raw, AckName)[1]) \in SuccessTokens
        ELSE last.out.kind = "AttributeError"

\* C4: when the query string encodes the ACK field, in whatever letter case
\* and with whatever values, and no value upper-cases to a success token,
\* construction completes and isSuccess() returns false.
ClaimC4 ==
    LET vs == EncodedValues(query_string, AckName) IN
    (/\ vs # <<>>
     /\ \A i \in 1..Len(vs) : upper(vs[i]) \notin SuccessTokens) =>
        /\ pc # "failed"
        /\ (Built /\ last.op = "success") => last.out = ReturnBool(FALSE)

\* C5: for a key whose upper-case form is no key of raw, get raises
\* FieldNotFound and getField raises FieldNotFound carrying the name exactly
\* as passed; on the record of the empty string every get and getField raises.
TheoremC5 ==
    Built =>
        /\ (last.op = "getitem" /\ ~HasKey(raw, upper(last.arg))) =>
               last.out.kind = "KeyError"
        /\ (last.op = "getattr" /\ ~HasKey(raw, upper(last.arg))) =>
               last.out = RaiseAttributeError(last.arg)
        /\ (last.op \in {"getitem", "getattr"} /\ query_string = <<>>) =>
               Raised(last.out)

\* C5's case: getField("Ack") on a record without ACK has raised.
WitnessC5 ==
    /\ Built
    /\ last.op = "getattr"
    /\ last.arg = <<"A", "c", "k">>
    /\ ~HasKey(raw, AckName)
    /\ Raised(last.out)

\* C6: every key of the raw of a constructed record is upper case, so every
\* field the query string encodes with a value is found by the lookup.
ClaimC6 ==
    Built =>
        /\ \A i \in 1..Len(raw) : upper(raw[i].key) = raw[i].key
        /\ \A K \in EncodedFields(query_string) :
               EncodedValues(query_string, K) # <<>> => HasKey(raw, K)

\* C7: size() is the number of fields the query string encodes, names
\* differing only in letter case being one field and pairs with an empty
\* value included.
ClaimC7 ==
    (Built /\ last.op = "len") =>
        last.out = ReturnInt(Cardinality(EncodedFields(query_string)))

\* C8: construction never fails.
ClaimC8 == pc # "failed"

TheoremC10 ==
    [][Built =>
          /\ raw' = raw
          /\ config' = config
          /\ (last'.op = last.op /\ last'.arg = last.arg) => last'.out = last.out]_vars

\* C10's case: a call that raised, after a lookup of a lower-case key could
\* have stored something.
WitnessC10 ==
    /\ Built
    /\ last.op = "success"
    /\ Raised(last.out)
    /\ raw # <<>>

====
